---- MODULE Spec2Model ----
(***************************************************************************)
(* Model of src/employees.py: the animated bar renderer animate_plot and   *)
(* the render pass of the dashboard script (filters, the two bar charts,   *)
(* the raw table and the attrition plots).                                 *)
(*                                                                         *)
(* Numbers.  animate_plot works on IEEE-754 binary64 values: np.arange     *)
(* with step 0.1 yields k * 0.1 and the frame shows k * 0.1 + 0.1, each    *)
(* operation rounded to the nearest double (ties to even).  A double x is  *)
(* modelled exactly as the pair [t, r] with                                *)
(*         x = t / 10 + (r / 10) * 2^-56                                   *)
(* t counts tenths, r is the distance to the decimal value in tenths of    *)
(* 2^-56 (the unit in the last place of the double 0.1).  The double 0.1   *)
(* is 3602879701896397 * 2^-55 = (2^56 + 4) / 10 * 2^-56, that is          *)
(* [t |-> 1, r |-> 4].  All values here are below 2^7 and |r| stays far    *)
(* below 2^56, so the pair of a double is unique and order is decided by   *)
(* t first and r second.                                                   *)
(*                                                                         *)
(* Assigning a float to the zeroed int64 column (line 66 with step 0.1)    *)
(* is modelled as pandas 2.x does it: the column is upcast to float64 and  *)
(* keeps the value.                                                        *)
(***************************************************************************)
EXTENDS Integers, Sequences, FiniteSets

\* Size of the tables given to animate_plot: at most MaxRows categories, the
\* targets are the integers 0..MaxTarget and the fractions 0.5, 1.5 and 8.5.
MaxRows == 2
MaxTarget == 9

\* Size of the CSV the script loads: at most MaxEmployees rows.
MaxEmployees == 2

VARIABLES
  df,            \* animate_plot: the target column df[y_col], row by row
  df_temp,       \* animate_plot: the displayed column df_temp[y_col]
  step,          \* animate_plot: step (a double)
  step_time,     \* animate_plot: step_time, in tenths of a time unit
  nrow,          \* animate_plot: the outer loop's row (0-based, as in the code)
  k,             \* animate_plot: position in np.arange of the current row
  current_value, \* animate_plot: the inner loop variable current_value
  container,     \* the st.empty() slot: the table drawn by the last bar_chart call
  painted_row,   \* the row being swept when container was last drawn (0-based)
  repaints,      \* number of container.bar_chart calls so far
  row_repaints,  \* the same, per swept row
  sleeps,        \* number of time.sleep calls so far
  sleep_den,     \* the divisor df[y_col].max() of the last time.sleep argument
  pc             \* animate_plot: "start", "loop", "done", "raised"

anim_vars == <<df, df_temp, step, step_time, nrow, k, current_value, container, painted_row,
               repaints, row_repaints, sleeps, sleep_den, pc>>

VARIABLES
  data,               \* the rows of the remote CSV (fixed while the cache lives)
  text_input_id,      \* sidebar text input "Employee ID" (a sequence of characters)
  selectbox_hometown, \* sidebar selectbox "Hometown"
  selectbox_unit,     \* sidebar selectbox "Unit"
  raw_chekbox,        \* sidebar checkbox "Raw Data"
  animetbutton,       \* value of the "Animate plots" button in the last pass
  balloonsbutton,     \* value of the balloon button in the last pass
  table_out,          \* the frame shown by st.dataframe(df_employees_filtred)
  raw_out,            \* the frame shown under "Raw Data Frame" (<<>> when hidden)
  hist_chart,         \* what ages_hist drew: [mode, draws, shown]
  unit_chart,         \* what unit_bar drew: [mode, draws, shown]
  line_in,            \* the frame given to simple_lineplot
  tos_in,             \* the frame given to mean_line_scatter(.., 'Time_of_service', ..)
  age_in              \* the frame given to mean_line_scatter(.., 'Age', ..)

app_vars == <<data, text_input_id, selectbox_hometown, selectbox_unit, raw_chekbox,
              animetbutton, balloonsbutton, table_out, raw_out, hist_chart,
              unit_chart, line_in, tos_in, age_in>>

vars == <<anim_vars, app_vars>>

----------------------------------------------------------------------------
(* binary64 arithmetic *)

Dbl(t, r) == [t |-> t, r |-> r]

Zero == Dbl(0, 0)

\* the int 1 of "step = 1" (exactly representable)
One == Dbl(10, 0)

\* the double nearest to 0.1 of "step = 0.1"
Tenth == Dbl(1, 4)

\* the threshold 8 of "df[y_col].max() > 8"
Eight == Dbl(80, 0)

Gt(x, y) == x.t > y.t \/ (x.t = y.t /\ x.r > y.r)

Ge(x, y) == x = y \/ Gt(x, y)

Pow2(n) == 2 ^ n

\* 2^n mod 10 for n >= 1
Pow2Mod10(n) ==
  CASE n % 4 = 1 -> 2
    [] n % 4 = 2 -> 4
    [] n % 4 = 3 -> 8
    [] OTHER     -> 6

\* x >= 2^(g - 4)
AtLeastPow2(x, g) ==
  \/ 16 * x.t > 10 * Pow2(g)
  \/ (16 * x.t = 10 * Pow2(g) /\ x.r >= 0)

\* g such that 2^(g-4) <= x < 2^(g-3): the doubles of that binade are the
\* multiples of 2^(g-4-52) = 2^g * 2^-56.
Binade(x) ==
  CHOOSE g \in 0..10 : AtLeastPow2(x, g) /\ (g = 10 \/ ~AtLeastPow2(x, g + 1))

\* x modulo 2^g * 2^-56, in tenths of 2^-56:
\* 10 x / 2^-56 = t * 2^56 + r, and 2^56 = 2^g * 2^(56-g).
ModUlp(x, g) == (x.t * Pow2(g) * Pow2Mod10(56 - g) + x.r) % (10 * Pow2(g))

\* round to nearest double, ties to even (x > 0 or x = 0)
Round(x) ==
  IF x = Zero THEN x
  ELSE LET g    == Binade(x)
           m    == ModUlp(x, g)
           down == Dbl(x.t, x.r - m)
           up   == Dbl(x.t, x.r + 10 * Pow2(g) - m)
       IN  IF 2 * m < 10 * Pow2(g) THEN down
           ELSE IF 2 * m > 10 * Pow2(g) THEN up
           ELSE IF ModUlp(down, g + 1) = 0 THEN down ELSE up

\* x + y in binary64
FAdd(x, y) == Round(Dbl(x.t + y.t, x.r + y.r))

\* i * y in binary64, i an integer
FMulInt(i, y) == Round(Dbl(i * y.t, i * y.r))

----------------------------------------------------------------------------
(* animate_plot *)

TargetSet == {Dbl(10 * n, 0) : n \in 0..MaxTarget} \cup {Dbl(5, 0), Dbl(15, 0), Dbl(85, 0)}

Tables == UNION {[1..n -> TargetSet] : n \in 0..MaxRows}

\* df[y_col].max() of a table with at least one row
MaxOf(col) ==
  CHOOSE x \in {col[i] : i \in 1..Len(col)} :
    \A i \in 1..Len(col) : ~Gt(col[i], x)

\* "df[y_col].max() > 8": the max of an empty column is NaN, and NaN > 8 is False
ExceedsThreshold(col) == Len(col) > 0 /\ Gt(MaxOf(col), Eight)

\* a threshold test written >= 8 instead of > 8
StepForInclusive(col) ==
  IF Len(col) > 0 /\ Ge(MaxOf(col), Eight)
  THEN [step |-> One, step_time |-> 3]
  ELSE [step |-> Tenth, step_time |-> 1]

\* lines 58-63
StepFor(col) ==
  IF ExceedsThreshold(col)
  THEN [step |-> One, step_time |-> 3]
  ELSE [step |-> Tenth, step_time |-> 1]

\* a range that includes its stop value: floor(stop / s) + 1 elements
ArangeLenInclusive(stop, s) ==
  IF Gt(Zero, stop) THEN 0
  ELSE IF s = One THEN (stop.t \div 10) + 1
  ELSE stop.t + 1

\* len(np.arange(0, stop, s)) = ceil(stop / s) computed in binary64, 0 when
\* that is not positive.  stop is a multiple of 0.5, so stop / 1 is exact; the
\* exact quotient stop / 0.1 is stop.t * 2^56 / (2^56 + 4), which lies in
\* (stop.t - 1, stop.t], and so does its rounding: the ceiling is stop.t.
ArangeLen(stop, s) ==
  IF ~Gt(stop, Zero) THEN 0
  ELSE IF s = One THEN (stop.t + 9) \div 10
  ELSE stop.t

\* np.arange(0, stop, s)[i] = 0 + i * s
ArangeAt(i, s) == FMulInt(i, s)

\* the frame shows the loop variable itself, without the step
FrameValueNoStep(cv, s) == cv

\* line 66: current_value + step
FrameValue(cv, s) == FAdd(cv, s)

\* a copy whose y column is not reset
PlainCopy(col) == col

\* lines 56-57: df_temp = df.copy(); df_temp[y_col] = 0
ZeroedCopy(col) == [i \in 1..Len(col) |-> Zero]

\* animate_plot is entered with the table tbl
Called(tbl) ==
  /\ df = tbl
  /\ df_temp = <<>>
  /\ step = Zero
  /\ step_time = 0
  /\ nrow = 0
  /\ k = 0
  /\ current_value = Zero
  /\ container = <<>>
  /\ painted_row = 0
  /\ repaints = 0
  /\ row_repaints = [i \in 1..Len(df) |-> 0]
  /\ sleeps = 0
  /\ sleep_den = Zero
  /\ pc = "start"

\* no page is open
NoPage ==
  /\ data = <<>>
  /\ text_input_id = <<>>
  /\ selectbox_hometown = "All"
  /\ selectbox_unit = "All"
  /\ raw_chekbox = FALSE
  /\ animetbutton = FALSE
  /\ balloonsbutton = FALSE
  /\ table_out = <<>>
  /\ raw_out = <<>>
  /\ hist_chart = [mode |-> "none", draws |-> 0, shown |-> <<>>]
  /\ unit_chart = [mode |-> "none", draws |-> 0, shown |-> <<>>]
  /\ line_in = <<>>
  /\ tos_in = <<>>
  /\ age_in = <<>>

Init == (\E tbl \in Tables : Called(tbl)) /\ NoPage

\* lines 55-63: the empty slot, the zeroed copy, step and delay
Setup ==
  /\ pc = "start"
  /\ df_temp' = ZeroedCopy(df)
  /\ step' = StepFor(df).step
  /\ step_time' = StepFor(df).step_time
  /\ nrow' = 0
  /\ k' = 0
  /\ pc' = "loop"
  /\ UNCHANGED <<df, current_value, container, painted_row, repaints, row_repaints,
                 sleeps, sleep_den>>
  /\ UNCHANGED app_vars

\* lines 65-68: one iteration of the inner loop
Frame ==
  /\ pc = "loop"
  /\ nrow < Len(df)
  /\ k < ArangeLen(df[nrow + 1], step)
  /\ current_value' = ArangeAt(k, step)
  /\ df_temp' = [df_temp EXCEPT ![nrow + 1] = FrameValue(current_value', step)]
  /\ container' = df_temp'
  /\ painted_row' = nrow
  /\ repaints' = repaints + 1
  /\ row_repaints' = [row_repaints EXCEPT ![nrow + 1] = @ + 1]
  /\ IF MaxOf(df) = Zero
     THEN pc' = "raised" /\ UNCHANGED <<sleeps, sleep_den>>
     ELSE pc' = pc /\ sleeps' = sleeps + 1 /\ sleep_den' = MaxOf(df)
  /\ k' = k + 1
  /\ UNCHANGED <<df, step, step_time, nrow>>
  /\ UNCHANGED app_vars

\* lines 64-65: the inner range is exhausted, the outer loop moves on
NextRow ==
  /\ pc = "loop"
  /\ nrow < Len(df)
  /\ k >= ArangeLen(df[nrow + 1], step)
  /\ nrow' = nrow + 1
  /\ k' = 0
  /\ UNCHANGED <<df, df_temp, step, step_time, current_value, container, painted_row,
                 repaints, row_repaints, sleeps, sleep_den, pc>>
  /\ UNCHANGED app_vars

\* line 64: the outer range is exhausted, animate_plot returns
Return ==
  /\ pc = "loop"
  /\ nrow = Len(df)
  /\ pc' = "done"
  /\ UNCHANGED <<df, df_temp, step, step_time, nrow, k, current_value, container,
                 painted_row, repaints, row_repaints, sleeps, sleep_den>>
  /\ UNCHANGED app_vars

Next == Setup \/ Frame \/ NextRow \/ Return

Spec == Init /\ [][Next]_vars

\* animate_plot is sequential code: its next statement is always executed
\* (every time.sleep argument is finite, see C9).
FairSpec == Spec /\ WF_vars(Next)

----------------------------------------------------------------------------
(* The dashboard script: one run of lines 189-281 per interaction *)

\* default of load_employees(nrows=500)
DefaultRows == 500

Employee(id, hometown, unit, age, rate, tos) ==
  [Employee_ID |-> id, Hometown |-> hometown, Unit |-> unit, Age |-> age,
   Attrition_rate |-> rate, Time_of_service |-> tos]

\* The rows a CSV may hold.  Employee_ID is a sequence of characters; Age is
\* {} for a missing value (NaN) and {a} otherwise; Attrition_rate is in
\* hundredths.
EmployeePool ==
  { Employee(<<"E", "A">>, "Lebanon",     "IT",        {19}, 25, 4),
    Employee(<<"E", "B">>, "Springfield", "IT",        {42}, 10, 7),
    Employee(<<"A", "B">>, "Lebanon",     "Logistics", {},   40, 4),
    Employee(<<"B", "A">>, "Springfield", "Logistics", {70}, 5,  12) }

Datasets == UNION {[1..n -> EmployeePool] : n \in 0..MaxEmployees}

\* what the user may type: nothing, or letters (no regular-expression
\* metacharacter, so str.contains matches the text literally)
TextInputs == { <<>>, <<"a">>, <<"e", "b">>, <<"B">> }

\* the values of Hometown and of Unit, in sorted() order
HometownOrder == <<"Lebanon", "Springfield">>
UnitOrder == <<"IT", "Logistics">>

\* line 27: pd.read_csv(url, nrows=nrows); nrows = 0 stands for None (all rows)
load_employees(csv, nrows) ==
  IF nrows = 0 \/ Len(csv) <= nrows THEN csv ELSE SubSeq(csv, 1, nrows)

Lower(c) ==
  CASE c = "A" -> "a"
    [] c = "B" -> "b"
    [] c = "E" -> "e"
    [] OTHER   -> c

\* Series.str.contains(text, case=False) on one value
Contains(id, text) ==
  \E i \in 0..(Len(id) - Len(text)) :
    \A j \in 1..Len(text) : Lower(id[i + j]) = Lower(text[j])

\* lines 205-207
FilterById(frame, text) ==
  IF text # <<>>
  THEN SelectSeq(frame, LAMBDA e : Contains(e.Employee_ID, text))
  ELSE frame

\* lines 211-213
FilterByHometown(frame, sel) ==
  IF sel # "All"
  THEN SelectSeq(frame, LAMBDA e : e.Hometown = sel)
  ELSE frame

\* lines 217-219
FilterByUnit(frame, sel) ==
  IF sel # "All"
  THEN SelectSeq(frame, LAMBDA e : e.Unit = sel)
  ELSE frame

\* a hometown filter applied to the unfiltered frame, dropping the ID filter
FilteredFromScratch(df_employees, text, hometown, unit) ==
  FilterByUnit(FilterByHometown(df_employees, hometown), unit)

\* lines 201-219: df_employees_filtred after the three filters
Filtered(df_employees, text, hometown, unit) ==
  FilterByUnit(FilterByHometown(FilterById(df_employees, text), hometown), unit)

\* ["All"] + sorted(df_employees[col].unique())
HometownOptions(df_employees) ==
  <<"All">> \o SelectSeq(HometownOrder,
                         LAMBDA h : \E i \in 1..Len(df_employees) : df_employees[i].Hometown = h)

UnitOptions(df_employees) ==
  <<"All">> \o SelectSeq(UnitOrder,
                         LAMBDA u : \E i \in 1..Len(df_employees) : df_employees[i].Unit = u)

\* an int64 count as a number of the chart's y column
Count(n) == Dbl(10 * n, 0)

Column(tbl) == [i \in 1..Len(tbl) |-> tbl[i].y]

\* line 84 and line 86
bin_edges == <<18, 20, 30, 40, 50, 60, 70>>
age_ranges == <<"18-19", "20-29", "30-39", "40-49", "50-59", "60-69">>

\* np.histogram: bin b holds edges[b] <= a < edges[b+1], the last bin also
\* holds its right edge
InBin(a, b) ==
  /\ bin_edges[b] <= a
  /\ IF b = Len(age_ranges) THEN a <= bin_edges[b + 1] ELSE a < bin_edges[b + 1]

\* lines 83-90: hist_df
hist_df(frame) ==
  LET df_cleaned == SelectSeq(frame, LAMBDA e : e.Age # {})
  IN  [b \in 1..Len(age_ranges) |->
         [x |-> age_ranges[b],
          y |-> Count(Cardinality({i \in 1..Len(df_cleaned) :
                                     \E a \in df_cleaned[i].Age : InBin(a, b)}))]]

\* lines 109-111: unit_counts, sorted by Unit
unit_counts(frame) ==
  LET present == SelectSeq(UnitOrder,
                           LAMBDA u : \E i \in 1..Len(frame) : frame[i].Unit = u)
  IN  [j \in 1..Len(present) |->
         [x |-> present[j],
          y |-> Count(Cardinality({i \in 1..Len(frame) : frame[i].Unit = present[j]}))]]

\* the value a row holds when its sweep is over (lines 65-66)
SweepEnd(target, s) ==
  IF ArangeLen(target, s) = 0 THEN Zero
  ELSE FrameValue(ArangeAt(ArangeLen(target, s) - 1, s), s)

RECURSIVE SumLen(_, _, _)
SumLen(col, s, i) ==
  IF i = 0 THEN 0 ELSE ArangeLen(col[i], s) + SumLen(col, s, i - 1)

\* lines 55-68 as a whole: how often the slot was drawn and what it shows at
\* the end (nothing when no frame was drawn)
animate_plot(tbl) ==
  LET s == StepFor(Column(tbl)).step
      n == SumLen(Column(tbl), s, Len(tbl))
  IN  [mode  |-> "animated",
       draws |-> n,
       shown |-> IF n = 0 THEN <<>>
                 ELSE [i \in 1..Len(tbl) |-> [x |-> tbl[i].x, y |-> SweepEnd(tbl[i].y, s)]]]

\* line 94 and line 115: st.bar_chart(data=...)
bar_chart(tbl) == [mode |-> "static", draws |-> 1, shown |-> tbl]

\* a histogram that ignores its flag
ages_hist_static(frame, animetcheck) == bar_chart(hist_df(frame))

\* lines 91-94
ages_hist(frame, animetcheck) ==
  IF animetcheck THEN animate_plot(hist_df(frame)) ELSE bar_chart(hist_df(frame))

\* lines 112-115
unit_bar(frame, animetcheck) ==
  IF animetcheck THEN animate_plot(unit_counts(frame)) ELSE bar_chart(unit_counts(frame))

\* the attrition plots drawn from the filtered frame
PlotFrameFiltered(raw_df, df_employees_filtred) == df_employees_filtred

\* lines 263, 271 and 275: the frame the three attrition plots are given
PlotFrame(raw_df, df_employees_filtred) == raw_df

\* line 263: raw_df[["Hometown", "Attrition_rate"]]
HometownRate(frame) ==
  [i \in 1..Len(frame) |->
     [Hometown |-> frame[i].Hometown, Attrition_rate |-> frame[i].Attrition_rate]]

\* One run of the script with the widget values given.
Rerun(text, hometown, unit, raw, animate, balloons) ==
  LET df_employees         == load_employees(data, DefaultRows)
      df_employees_filtred == Filtered(df_employees, text, hometown, unit)
      raw_df               == load_employees(data, 0)
  IN  /\ text_input_id' = text
      /\ selectbox_hometown' = hometown
      /\ selectbox_unit' = unit
      /\ raw_chekbox' = raw
      /\ animetbutton' = animate
      /\ balloonsbutton' = balloons
      /\ table_out' = df_employees_filtred
      /\ raw_out' = IF raw THEN raw_df ELSE <<>>
      /\ hist_chart' = ages_hist(df_employees_filtred, animate)
      /\ unit_chart' = unit_bar(df_employees_filtred, animate)
      /\ line_in' = HometownRate(PlotFrame(raw_df, df_employees_filtred))
      /\ tos_in' = PlotFrame(raw_df, df_employees_filtred)
      /\ age_in' = PlotFrame(raw_df, df_employees_filtred)
      /\ UNCHANGED data
      /\ UNCHANGED anim_vars

\* the page is opened: the first run, every widget at its default
AppInit ==
  /\ Called(<<>>)
  /\ data \in Datasets
  /\ text_input_id = <<>>
  /\ selectbox_hometown = "All"
  /\ selectbox_unit = "All"
  /\ raw_chekbox = FALSE
  /\ animetbutton = FALSE
  /\ balloonsbutton = FALSE
  /\ table_out = Filtered(load_employees(data, DefaultRows), <<>>, "All", "All")
  /\ raw_out = <<>>
  /\ hist_chart = ages_hist(table_out, FALSE)
  /\ unit_chart = unit_bar(table_out, FALSE)
  /\ line_in = HometownRate(PlotFrame(load_employees(data, 0), table_out))
  /\ tos_in = PlotFrame(load_employees(data, 0), table_out)
  /\ age_in = PlotFrame(load_employees(data, 0), table_out)

\* the user edits the Employee ID text
TypeId ==
  \E text \in TextInputs :
    /\ text # text_input_id
    /\ Rerun(text, selectbox_hometown, selectbox_unit, raw_chekbox, FALSE, FALSE)

\* the user picks another hometown among the options of line 211
SelectHometown ==
  \E j \in 1..Len(HometownOptions(load_employees(data, DefaultRows))) :
    LET sel == HometownOptions(load_employees(data, DefaultRows))[j]
    IN  /\ sel # selectbox_hometown
        /\ Rerun(text_input_id, sel, selectbox_unit, raw_chekbox, FALSE, FALSE)

\* the user picks another unit among the options of line 217
SelectUnit ==
  \E j \in 1..Len(UnitOptions(load_employees(data, DefaultRows))) :
    LET sel == UnitOptions(load_employees(data, DefaultRows))[j]
    IN  /\ sel # selectbox_unit
        /\ Rerun(text_input_id, selectbox_hometown, sel, raw_chekbox, FALSE, FALSE)

\* the user toggles "Raw Data"
ToggleRaw ==
  Rerun(text_input_id, selectbox_hometown, selectbox_unit, ~raw_chekbox, FALSE, FALSE)

\* the user clicks "Animate plots": the button is True in this run only
PressAnimate ==
  Rerun(text_input_id, selectbox_hometown, selectbox_unit, raw_chekbox, TRUE, FALSE)

\* the user clicks the balloon button
PressBalloons ==
  Rerun(text_input_id, selectbox_hometown, selectbox_unit, raw_chekbox, FALSE, TRUE)

AppNext ==
  TypeId \/ SelectHometown \/ SelectUnit \/ ToggleRaw \/ PressAnimate \/ PressBalloons

AppSpec == AppInit /\ [][AppNext]_vars

----------------------------------------------------------------------------
(* Properties of animate_plot *)

Rows == 1..Len(df)

Started == pc \in {"loop", "done", "raised"}

\* the least n with n * S >= T for the decimal step S (1 or 0.1): ceil(T / S)
CeilQuot(T, s) ==
  CHOOSE n \in 0..T.t : n * s.t >= T.t /\ (n = 0 \/ (n - 1) * s.t < T.t)

RECURSIVE SumCeil(_)
SumCeil(i) == IF i = 0 THEN 0 ELSE CeilQuot(df[i], step) + SumCeil(i - 1)

\* C1: for every non-negative target table, when animate_plot returns the
\* displayed column equals the target column exactly, row by row.
C1_DisplayEqualsTarget == pc = "done" => df_temp = df

\* C2: in every state of animate_plot each row's displayed value lies between
\* 0 and that row's target, inclusive; no frame shows a value above its target.
C2_DisplayedWithinTarget ==
  Started =>
    /\ \A i \in Rows : Ge(df_temp[i], Zero) /\ Ge(df[i], df_temp[i])
    /\ repaints > 0 => \A i \in Rows : Ge(df[i], container[i])

\* C3: the sweep of a category with target T makes ceil(T / S) repaints, none
\* for a target of 0, and a run makes the sum of ceil(T_i / S) repaints.
C3_RepaintCount ==
  Started =>
    /\ \A i \in Rows :
         /\ row_repaints[i] <= CeilQuot(df[i], step)
         /\ (i < nrow + 1 \/ pc = "done") => row_repaints[i] = CeilQuot(df[i], step)
         /\ df[i] = Zero => row_repaints[i] = 0
    /\ pc = "done" => repaints = SumCeil(Len(df))

C3_Witness ==
  /\ pc = "done"
  /\ Len(df) = 2
  /\ df[1] = Zero /\ row_repaints[1] = 0
  /\ df[2] = Dbl(85, 0) /\ row_repaints[2] = 9

\* C9: delay / max_target is never evaluated with max_target = 0: every pause
\* follows a repaint, every repaint is of a category whose target is strictly
\* positive, and an all-zero or empty table makes no repaint and no pause.
C9_PauseDivisorPositive ==
  /\ pc # "raised"
  /\ sleeps = repaints
  /\ sleeps > 0 => Gt(sleep_den, Zero) /\ sleep_den = MaxOf(df)
  /\ repaints > 0 => Gt(df[painted_row + 1], Zero)
  /\ (\A i \in Rows : df[i] = Zero) => repaints = 0 /\ sleeps = 0

C9_Witness ==
  /\ pc = "done"
  /\ sleeps > 0
  /\ \E i \in Rows : df[i] = Zero

\* the step policy of section 4.1: coarse iff some target is strictly
\* greater than 8
PolicyHolds ==
  IF \E i \in Rows : df[i].t > 80
  THEN step = One /\ step_time = 3
  ELSE step = Tenth /\ step_time = 1

StepIsFixed == pc = "loop" => step' = step /\ step_time' = step_time

\* |a|
Abs(a) == IF a < 0 THEN -a ELSE a

\* C4 as amended: step and delay are chosen once from the whole table (1 and
\* 0.3 iff the maximum is strictly above 8, else 0.1 and 0.1) and stay fixed;
\* every frame shows a value strictly above the previous one of the swept
\* category: exactly the previous value plus 1 in the coarse branch, and in
\* the fine branch the previous value plus 0.1 up to binary64 rounding (less
\* than 1e-14, i.e. 7000 tenths of 2^-56).
C4_StepPolicy ==
  /\ [](Started => PolicyHolds)
  /\ [][StepIsFixed]_vars
  /\ [][repaints' # repaints =>
          LET old == df_temp[nrow + 1]
              new == df_temp'[nrow + 1]
          IN  /\ Gt(new, old)
              /\ new.t = old.t + step.t
              /\ step = One => new = FAdd(old, step)
              /\ step = Tenth => Abs(new.r - old.r - step.r) < 7000]_vars

\* C4 as stated: ..., and each frame raises the swept category's displayed
\* value by exactly one step over its previous value.
C4_ExactStepEachFrame ==
  /\ [](Started => PolicyHolds)
  /\ [][StepIsFixed]_vars
  /\ [][repaints' # repaints =>
          df_temp'[nrow + 1] = FAdd(df_temp[nrow + 1], step)]_vars

C4_Witness ==
  /\ pc = "loop"
  /\ Len(df) = 2
  /\ MaxOf(df) = Eight
  /\ step = Tenth
  /\ row_repaints[1] > 6
  /\ nrow = 1 /\ k > 1

C6_Terminates ==
  /\ <>(pc = "done")
  /\ [][/\ repaints' # repaints => ~Ge(df_temp[nrow + 1], df[nrow + 1])
        /\ nrow' # nrow => Ge(df_temp[nrow + 1], df[nrow + 1])]_vars
  /\ [][pc # "done"]_vars

C6_Witness ==
  /\ pc = "done"
  /\ Len(df) = 2
  /\ row_repaints[1] > 0 /\ row_repaints[2] > 0
  /\ repaints = row_repaints[1] + row_repaints[2]

\* The summary animate_plot(tbl) used by the script agrees with the loop run
\* step by step: same number of draws, same final column.
AnimateSummaryAgrees ==
  pc = "done" =>
    /\ repaints = SumLen(df, step, Len(df))
    /\ df_temp = [i \in Rows |-> SweepEnd(df[i], step)]

----------------------------------------------------------------------------
(* Properties of the script *)

\* the row of the widgets' current values
Keeps(e) ==
  /\ text_input_id = <<>> \/ Contains(e.Employee_ID, text_input_id)
  /\ selectbox_hometown = "All" \/ e.Hometown = selectbox_hometown
  /\ selectbox_unit = "All" \/ e.Unit = selectbox_unit

\* the n-th smallest element of a set of indices
NthSmallest(S, n) == CHOOSE i \in S : Cardinality({j \in S : j <= i}) = n

\* sub is exactly the rows of frame at the indices idx, in their order
IsRowsAt(sub, frame, idx) ==
  /\ Len(sub) = Cardinality(idx)
  /\ \A n \in 1..Len(sub) : sub[n] = frame[NthSmallest(idx, n)]

\* C7: "All" returns the table it is given unchanged, a specific hometown (or
\* unit) returns exactly the rows whose value equals it, and the displayed
\* table is exactly the rows of the loaded dataset that satisfy every active
\* filter, in their original order.
C7_FilteredRows ==
  LET df_employees == load_employees(data, DefaultRows)
      all          == 1..Len(df_employees)
  IN  /\ IsRowsAt(table_out, df_employees, {i \in all : Keeps(df_employees[i])})
      /\ FilterByHometown(df_employees, "All") = df_employees
      /\ FilterByHometown(table_out, "All") = table_out
      /\ FilterByUnit(df_employees, "All") = df_employees
      /\ FilterByUnit(table_out, "All") = table_out
      /\ \A j \in 1..Len(HometownOrder) :
           IsRowsAt(FilterByHometown(df_employees, HometownOrder[j]), df_employees,
                    {i \in all : df_employees[i].Hometown = HometownOrder[j]})
      /\ \A j \in 1..Len(UnitOrder) :
           IsRowsAt(FilterByUnit(df_employees, UnitOrder[j]), df_employees,
                    {i \in all : df_employees[i].Unit = UnitOrder[j]})

C7_Witness ==
  /\ text_input_id # <<>>
  /\ selectbox_hometown # "All"
  /\ Len(data) = 2
  /\ Len(FilterById(data, text_input_id)) = 2
  /\ Len(table_out) = 1
  /\ table_out[1] = data[2]

StaticWithFinalValues(chart, tbl) ==
  chart.mode = "static" /\ chart.draws = 1 /\ chart.shown = tbl

\* C8: the two bar charts are animated in a pass iff "Animate plots" was
\* pressed for that pass; in every other pass, the one after an animated pass
\* included, each is drawn exactly once, statically, with its final values.
C8_AnimatedIffButton ==
  /\ [](/\ hist_chart.mode = "animated" <=> animetbutton
        /\ unit_chart.mode = "animated" <=> animetbutton
        /\ ~animetbutton =>
             /\ StaticWithFinalValues(hist_chart, hist_df(table_out))
             /\ StaticWithFinalValues(unit_chart, unit_counts(table_out)))
  /\ [][animetbutton /\ ~animetbutton' =>
          /\ StaticWithFinalValues(hist_chart', hist_df(table_out'))
          /\ StaticWithFinalValues(unit_chart', unit_counts(table_out'))]_vars

C8_Witness ==
  /\ animetbutton
  /\ hist_chart.mode = "animated" /\ hist_chart.draws > 1
  /\ unit_chart.mode = "animated" /\ unit_chart.draws > 1

\* C10: the filters influence only the filtered table and the two bar charts:
\* the raw table and the frames given to the three attrition plots are those
\* of the full dataset in every pass, hence the same in any two passes.
C10_PlotsIgnoreFilters ==
  /\ [](/\ line_in = HometownRate(data)
        /\ tos_in = data
        /\ age_in = data
        /\ raw_chekbox => raw_out = data)
  /\ [][/\ line_in' = line_in
        /\ tos_in' = tos_in
        /\ age_in' = age_in
        /\ raw_chekbox /\ raw_chekbox' => raw_out' = raw_out]_vars

C10_Witness ==
  /\ Len(data) = 2
  /\ raw_chekbox
  /\ selectbox_unit # "All"
  /\ Len(table_out) = 1
  /\ Len(tos_in) = 2

====
